---- MODULE Spec2Model ----
(***************************************************************************)
(* Model of the recycle-counter API (src/main.py): the POST                *)
(* /process-frame/ handler, the lazily loaded detection model, and the     *)
(* transactional merge of a frame's brand counts into the Firestore        *)
(* document bottle_counts/live_counts.                                     *)
(*                                                                         *)
(* A server process runs one asyncio event loop.  process_image_frame is   *)
(* an `async def` whose only await is `await file.read()`; everything      *)
(* after it (decode, get_model, inference, the Firestore transaction) is   *)
(* synchronous code executed on the event loop.  loop[p] names the request *)
(* whose synchronous section currently occupies the loop of process p.     *)
(* Several server processes may share the one Firestore document.          *)
(***************************************************************************)
EXTENDS Integers, Sequences, FiniteSets, TLC

\* ------------------------------------------------------------ bounds
NumReqs == 3
NumProcs == 2

Reqs == 1..NumReqs
Procs == 1..NumProcs

\* The server process that serves request r.
ProcOf(r) == ((r - 1) % NumProcs) + 1

\* ------------------------------------------------------------ program constants
\* Confidence threshold of line 122, in hundredths (0.25).
CONF_THRESHOLD == 25
\* Attempts of a read-write transaction made by db.transaction() before the
\* transactional wrapper gives up.
MaxAttempts == 5

API_KEY == "secret"
NoHeader == "<missing>"
Keys == {API_KEY, "wrong", NoHeader}

\* ------------------------------------------------------------ dictionaries
EmptyMap == [l \in {} |-> 0]

\* dict.get(k, d)
Get(m, k, d) == IF k \in DOMAIN m THEN m[k] ELSE d

\* m[k] = v
Put(m, k, v) == [x \in (DOMAIN m) \cup {k} |-> IF x = k THEN v ELSE m[x]]

RECURSIVE SumOver(_, _)
SumOver(m, ks) ==
  IF ks = {} THEN 0
  ELSE LET k == CHOOSE x \in ks : TRUE IN m[k] + SumOver(m, ks \ {k})

\* sum(m.values())
SumValues(m) == SumOver(m, DOMAIN m)

\* ------------------------------------------------------------ detection
\* The label table of the loaded weights (r.names): class index -> brand.
names == [c \in {0, 1, 2} |-> CASE c = 0 -> "Brand-A" [] c = 1 -> "Brand-B" [] OTHER -> "Brand-C"]

\* r.names.get(class_id, str(class_id))
BrandName(class_id) == Get(names, class_id, ToString(class_id))

Box(cls, conf) == [cls |-> cls, conf |-> conf]

\* Upload bodies: bytes that do not decode, or an image identified with the
\* boxes the detector reports for it (class index, confidence in hundredths).
EmptyBody == [valid |-> FALSE, kind |-> "empty", boxes |-> <<>>]
GarbageBody == [valid |-> FALSE, kind |-> "garbage", boxes |-> <<>>]
Image(boxes) == [valid |-> TRUE, kind |-> "jpeg", boxes |-> boxes]

FrameLow == Image(<<Box(0, 24)>>)
FrameEdge == Image(<<Box(0, 25)>>)
FrameExample == Image(<<Box(0, 90), Box(1, 25), Box(2, 10), Box(0, 60)>>)

Bodies == {EmptyBody, GarbageBody, FrameLow, FrameEdge, FrameExample}

\* The requests sent: every body under the configured key, and under a wrong
\* or absent key a malformed body and a frame full of bottles.
Inputs ==
  {[key |-> k, body |-> b] : k \in {API_KEY}, b \in Bodies}
    \cup {[key |-> k, body |-> b] : k \in Keys \ {API_KEY}, b \in {GarbageBody, FrameExample}}

\* Mutant: the result of imdecode is not tested for None.
Decode_Unchecked(body) == [image |-> TRUE, boxes |-> body.boxes]

\* np.frombuffer + cv2.imdecode: no image (None, or an exception) for bytes
\* that are not an encoded image, else the image.
Decode(body) ==
  IF body.valid THEN [image |-> TRUE, boxes |-> body.boxes]
  ELSE [image |-> FALSE, boxes |-> <<>>]

\* Mutant: a box at exactly the threshold is dropped.
KeepBox_Strict(box) == box.conf > CONF_THRESHOLD

\* Lines 113-124: the labels of the boxes at or above the threshold, in order.
KeepBox(box) == box.conf >= CONF_THRESHOLD

\* Mutant: a box whose class index is not in the label table is skipped.
RECURSIVE CollectDetections_KnownOnly(_)
CollectDetections_KnownOnly(boxes) ==
  IF boxes = <<>> THEN <<>>
  ELSE LET box == Head(boxes)
           rest == CollectDetections_KnownOnly(Tail(boxes))
       IN IF KeepBox(box) /\ box.cls \in DOMAIN names
          THEN <<BrandName(box.cls)>> \o rest ELSE rest

RECURSIVE CollectDetections(_)
CollectDetections(boxes) ==
  IF boxes = <<>> THEN <<>>
  ELSE LET box == Head(boxes)
           rest == CollectDetections(Tail(boxes))
       IN IF KeepBox(box) THEN <<BrandName(box.cls)>> \o rest ELSE rest

\* collections.Counter(list)
RECURSIVE Counter(_)
Counter(xs) ==
  IF xs = <<>> THEN EmptyMap
  ELSE LET m == Counter(SubSeq(xs, 1, Len(xs) - 1))
           x == xs[Len(xs)]
       IN Put(m, x, Get(m, x, 0) + 1)

\* ------------------------------------------------------------ responses
NoResp == [status |-> 0, detail |-> "", detected_brands |-> EmptyMap]
Resp(status, detail) == [status |-> status, detail |-> detail, detected_brands |-> EmptyMap]

RespNotAuthenticated == Resp(403, "Not authenticated")
RespBadKey == Resp(403, "Could not validate credentials")
RespNoDb == Resp(500, "Firestore is not connected")
RespBadImage == Resp(400, "Invalid image format")
RespLoadFailed == Resp(500, "Model loading failed")
RespInferenceFailed == Resp(500, "Internal Server Error")
RespStoreFailed == Resp(500, "Firestore update failed")
RespNoBottles == Resp(200, "No bottles detected in the frame.")
\* Mutant: the response reports the number of labels seen, not the count of
\* each label.
RespMerged_LabelsOnly(brand_counts) ==
  [status |-> 200, detail |-> "Frame processed and counts updated in Firestore.",
   detected_brands |-> [l \in DOMAIN brand_counts |-> 1]]

RespMerged(brand_counts) ==
  [status |-> 200, detail |-> "Frame processed and counts updated in Firestore.",
   detected_brands |-> brand_counts]

\* Mutant: an absent header is let through and only a present, different key
\* is refused.
verify_api_key_AbsentPasses(api_key) ==
  IF api_key # NoHeader /\ api_key # API_KEY THEN RespBadKey ELSE NoResp

\* APIKeyHeader(auto_error=True) followed by verify_api_key.
verify_api_key(api_key) ==
  IF api_key = NoHeader THEN RespNotAuthenticated
  ELSE IF api_key # API_KEY THEN RespBadKey
  ELSE NoResp

\* ------------------------------------------------------------ the document
AbsentDoc == [exists |-> FALSE, timestamp |-> 0, total_bottles |-> 0, brands |-> EmptyMap]

\* A document left by an earlier run of the server.
EarlierDoc ==
  [exists |-> TRUE, timestamp |-> 0, total_bottles |-> 3,
   brands |-> [l \in {"Brand-A", "Brand-C"} |-> IF l = "Brand-A" THEN 2 ELSE 1]]

InitDocs == {AbsentDoc, EarlierDoc}

\* Mutant: the stored brands are not read; the merge starts from {}.
CurrentBrands_Ignored(snap) == EmptyMap

\* Line 139.
CurrentBrands(snap) == IF snap.exists THEN snap.brands ELSE EmptyMap

\* Mutant: the frame's count replaces the stored count.
AddBrand_Overwrite(current_brands, brand, count) == Put(current_brands, brand, count)

\* Line 142, one item of brand_counts.
AddBrand(current_brands, brand, count) ==
  Put(current_brands, brand, Get(current_brands, brand, 0) + count)

\* Lines 141-142, over the items ks of brand_counts.
RECURSIVE MergeItems(_, _, _)
MergeItems(current_brands, brand_counts, ks) ==
  IF ks = {} THEN current_brands
  ELSE LET k == CHOOSE x \in ks : TRUE
       IN MergeItems(AddBrand(current_brands, k, brand_counts[k]), brand_counts, ks \ {k})

\* Line 148.
TotalBottles(current_brands) == SumValues(current_brands)

\* Mutant: the total is kept by incrementing the stored total by the number of
\* labels of the frame instead of being recomputed from the merged counts.
UpdateInTransaction_IncrementTotal(snap, brand_counts) ==
  LET current_brands == MergeItems(CurrentBrands(snap), brand_counts, DOMAIN brand_counts)
  IN [exists |-> TRUE, timestamp |-> -1,
      total_bottles |-> snap.total_bottles + Cardinality(DOMAIN brand_counts),
      brands |-> current_brands]

\* Lines 136-151: the write update_in_transaction buffers for a snapshot.
\* The timestamp is the SERVER_TIMESTAMP sentinel, set by the store on commit.
UpdateInTransaction(snap, brand_counts) ==
  LET current_brands == MergeItems(CurrentBrands(snap), brand_counts, DOMAIN brand_counts)
  IN [exists |-> TRUE, timestamp |-> -1,
      total_bottles |-> TotalBottles(current_brands), brands |-> current_brands]

\* Mutant: the read and the write are not made in a transaction.
CommitAllowed_NoTransaction(current, snap) == TRUE

\* The store commits a transaction only if the document it read has not been
\* written since (serializable isolation); otherwise the commit is aborted.
CommitAllowed(current, snap) == current = snap

\* ------------------------------------------------------------ camera client
\* client.py line 12: seconds slept between frames.
FRAME_INTERVAL == 2

\* Frames the camera delivers before it is switched off; frame k travels as
\* request k.
MaxFrames == 2

\* Mutant: the client backs off after a failed POST.
Delay_Backoff(outcome) == IF outcome \in {"ok", "no_frame"} THEN FRAME_INTERVAL ELSE 2 * FRAME_INTERVAL

\* client.py line 66 (and line 40): the sleep after an iteration of the loop,
\* whatever its outcome.
Delay(outcome) == FRAME_INTERVAL

\* The client before its first cap.read(): position in the loop, index of the
\* frame in hand, seconds of the sleep in progress, and per frame the number of
\* POSTs made, the outcome observed and, for a timed-out POST, whether the
\* server had the request queued, in work or answered when the client gave up.
ClientStart ==
  [pc |-> "capture", frame |-> 0, delay |-> 0,
   posts |-> [r \in Reqs |-> 0],
   outcome |-> [r \in Reqs |-> "-"],
   cut |-> [r \in Reqs |-> "-"]]

\* How far the server is with a request, as far as a timeout is concerned.
Progress(position) ==
  CASE position = "new" -> "queued"
    [] position = "done" -> "answered"
    [] OTHER -> "working"

\* The frames cv2.imencode produces: always a decodable JPEG.
CameraFrames == {FrameLow, FrameEdge, FrameExample}

\* ------------------------------------------------------------ aggregation alone
MaxBoxes == 3
ClassIds == {0, 2, 7}
Confidences == {24, 25, 90}
AllBoxes == {Box(c, f) : c \in ClassIds, f \in Confidences}
BoxLists == UNION {[1..n -> AllBoxes] : n \in 0..MaxBoxes}

NoAgg == [stage |-> "-", boxes |-> <<>>, detected |-> <<>>, counts |-> EmptyMap]

VARIABLES
  pc,            \* where each request is in the handler
  req,           \* each request's X-API-KEY header and upload body
  resp,          \* each request's response
  db,            \* per process: TRUE when firestore.client() succeeded at import
  model,         \* per process: _model, 0 for None, else the instance created
  created,       \* per process: how many YOLO instances have been constructed
  loop,          \* per process: the request occupying the event loop, 0 if none
  used,          \* per request: the model instance its inference ran on
  brand_counts,  \* per request: Counter(detected_brands)
  attempt,       \* per request: the attempt of its transaction
  snapshot,      \* per request: the document read by its transaction
  pending,       \* per request: the write buffered by its transaction
  doc,           \* bottle_counts/live_counts
  doc0,          \* the document when the servers started
  clock,         \* the store's clock
  client,        \* the camera client of client.py
  agg            \* one run of the aggregation of lines 113-129 on a list of boxes

vars == <<pc, req, resp, db, model, created, loop, used, brand_counts,
          attempt, snapshot, pending, doc, doc0, clock, client, agg>>

\* What the servers and the store hold.
serverVars == <<pc, req, resp, db, model, created, loop, used, brand_counts,
                attempt, snapshot, pending, doc, doc0, clock>>

NoReq == [key |-> NoHeader, body |-> EmptyBody]

Init ==
  /\ pc = [r \in Reqs |-> "new"]
  /\ req = [r \in Reqs |-> NoReq]
  /\ resp = [r \in Reqs |-> NoResp]
  /\ db \in [Procs -> BOOLEAN]
  /\ model = [p \in Procs |-> 0]
  /\ created = [p \in Procs |-> 0]
  /\ loop = [p \in Procs |-> 0]
  /\ used = [r \in Reqs |-> 0]
  /\ brand_counts = [r \in Reqs |-> EmptyMap]
  /\ attempt = [r \in Reqs |-> 0]
  /\ snapshot = [r \in Reqs |-> AbsentDoc]
  /\ pending = [r \in Reqs |-> AbsentDoc]
  /\ doc0 \in InitDocs
  /\ doc = doc0
  /\ clock = 0
  /\ client = ClientStart
  /\ agg = NoAgg

\* Mutant: the handler's blocking calls do not occupy the event loop (as if
\* they ran in worker threads), so another request is dispatched meanwhile.
LoopFree_Threaded(p) == TRUE

\* The event loop of process p is free to dispatch.
LoopFree(p) == loop[p] = 0

\* Mutant: the error or the result is produced but the handler goes on (a
\* missing raise or return).
Finish_NoReturn(r, x) ==
  /\ pc' = pc
  /\ resp' = [resp EXCEPT ![r] = x]
  /\ loop' = [loop EXCEPT ![ProcOf(r)] = 0]

\* Request r ends with response x; the event loop is released.
Finish(r, x) ==
  /\ pc' = [pc EXCEPT ![r] = "done"]
  /\ resp' = [resp EXCEPT ![r] = x]
  /\ loop' = [loop EXCEPT ![ProcOf(r)] = 0]

\* A request arrives and is accepted by the event loop.
Receive(r) ==
  /\ pc[r] = "new"
  /\ LoopFree(ProcOf(r))
  /\ \E i \in Inputs : req' = [req EXCEPT ![r] = i]
  /\ pc' = [pc EXCEPT ![r] = "received"]
  /\ UNCHANGED <<resp, db, model, created, loop, used, brand_counts,
                 attempt, snapshot, pending, doc, doc0, clock, client, agg>>

\* Depends(verify_api_key), line 90.
Authenticate(r) ==
  /\ pc[r] = "received"
  /\ LoopFree(ProcOf(r))
  /\ LET x == verify_api_key(req[r].key)
     IN IF x # NoResp THEN Finish(r, x)
        ELSE /\ pc' = [pc EXCEPT ![r] = "authed"]
             /\ UNCHANGED <<resp, loop>>
  /\ UNCHANGED <<req, db, model, created, used, brand_counts,
                 attempt, snapshot, pending, doc, doc0, clock, client, agg>>

\* Mutant: the handler does not test db before it reads the body.
StartHandler_NoDbCheck(r) ==
  /\ pc[r] = "authed"
  /\ LoopFree(ProcOf(r))
  /\ pc' = [pc EXCEPT ![r] = "reading"]
  /\ UNCHANGED <<req, resp, loop, db, model, created, used, brand_counts,
                 attempt, snapshot, pending, doc, doc0, clock, client, agg>>

\* Lines 95-99: the db check, then `await file.read()`.
StartHandler(r) ==
  /\ pc[r] = "authed"
  /\ LoopFree(ProcOf(r))
  /\ IF ~db[ProcOf(r)] THEN Finish(r, RespNoDb)
     ELSE /\ pc' = [pc EXCEPT ![r] = "reading"]
          /\ UNCHANGED <<resp, loop>>
  /\ UNCHANGED <<req, db, model, created, used, brand_counts,
                 attempt, snapshot, pending, doc, doc0, clock, client, agg>>

\* Lines 100-109 and 60: the coroutine resumes on the event loop, decodes the
\* body and enters get_model(); from here on it does not yield.
DecodeImage(r) ==
  /\ pc[r] = "reading"
  /\ LoopFree(ProcOf(r))
  /\ IF ~Decode(req[r].body).image THEN Finish(r, RespBadImage)
     ELSE /\ pc' = [pc EXCEPT ![r] = IF model[ProcOf(r)] = 0 THEN "loading" ELSE "inferring"]
          /\ loop' = [loop EXCEPT ![ProcOf(r)] = r]
          /\ UNCHANGED resp
  /\ UNCHANGED <<req, db, model, created, used, brand_counts,
                 attempt, snapshot, pending, doc, doc0, clock, client, agg>>

\* Mutant: the handle is assigned before the load is known to have succeeded,
\* so a failed load leaves a broken handle cached.
LoadModel_CachesFailure(r) ==
  /\ pc[r] = "loading"
  /\ loop[ProcOf(r)] = r
  /\ \E ok \in BOOLEAN :
       IF ok
       THEN /\ model' = [model EXCEPT ![ProcOf(r)] = created[ProcOf(r)] + 1]
            /\ created' = [created EXCEPT ![ProcOf(r)] = @ + 1]
            /\ pc' = [pc EXCEPT ![r] = "inferring"]
            /\ UNCHANGED <<resp, loop>>
       ELSE /\ Finish(r, RespLoadFailed)
            /\ model' = [model EXCEPT ![ProcOf(r)] = -1]
            /\ UNCHANGED created
  /\ UNCHANGED <<req, db, used, brand_counts, attempt, snapshot, pending, doc, doc0, clock, client, agg>>

\* Lines 61-67: YOLO(_model_path) returns and is cached, or raises.
LoadModel(r) ==
  /\ pc[r] = "loading"
  /\ loop[ProcOf(r)] = r
  /\ \E ok \in BOOLEAN :
       IF ok
       THEN /\ model' = [model EXCEPT ![ProcOf(r)] = created[ProcOf(r)] + 1]
            /\ created' = [created EXCEPT ![ProcOf(r)] = @ + 1]
            /\ pc' = [pc EXCEPT ![r] = "inferring"]
            /\ UNCHANGED <<resp, loop>>
       ELSE /\ Finish(r, RespLoadFailed)
            /\ UNCHANGED <<model, created>>
  /\ UNCHANGED <<req, db, used, brand_counts, attempt, snapshot, pending, doc, doc0, clock, client, agg>>

\* Mutant: the handler does not return early on an empty detection list.
RunInference_NoShortCircuit(r) ==
  /\ pc[r] = "inferring"
  /\ loop[ProcOf(r)] = r
  /\ used' = [used EXCEPT ![r] = model[ProcOf(r)]]
  /\ brand_counts' = [brand_counts EXCEPT ![r] =
                        Counter(CollectDetections(Decode(req[r].body).boxes))]
  /\ attempt' = [attempt EXCEPT ![r] = 1]
  /\ pc' = [pc EXCEPT ![r] = "txn"]
  /\ UNCHANGED <<req, resp, db, model, created, loop, snapshot, pending, doc, doc0, clock, client, agg>>

\* Lines 110-133: model(image) returns; the boxes are filtered and counted;
\* with no box kept the handler returns, else it opens a transaction.
RunInference(r) ==
  /\ pc[r] = "inferring"
  /\ loop[ProcOf(r)] = r
  /\ used' = [used EXCEPT ![r] = model[ProcOf(r)]]
  /\ LET detected_brands == CollectDetections(Decode(req[r].body).boxes)
     IN IF detected_brands = <<>>
        THEN /\ Finish(r, RespNoBottles)
             /\ UNCHANGED <<brand_counts, attempt>>
        ELSE /\ brand_counts' = [brand_counts EXCEPT ![r] = Counter(detected_brands)]
             /\ attempt' = [attempt EXCEPT ![r] = 1]
             /\ pc' = [pc EXCEPT ![r] = "txn"]
             /\ UNCHANGED <<resp, loop>>
  /\ UNCHANGED <<req, db, model, created, snapshot, pending, doc, doc0, clock, client, agg>>

\* Line 110 raising: the exception leaves the handler uncaught.
InferenceFails(r) ==
  /\ pc[r] = "inferring"
  /\ loop[ProcOf(r)] = r
  /\ used' = [used EXCEPT ![r] = model[ProcOf(r)]]
  /\ Finish(r, RespInferenceFailed)
  /\ UNCHANGED <<req, db, model, created, brand_counts, attempt, snapshot,
                 pending, doc, doc0, clock, client, agg>>

\* Mutant: current_brands outlives one execution of the body, so a re-run
\* after an aborted commit adds the frame's counts to the earlier result.
TxnBody_KeepsCurrent(r) ==
  /\ pc[r] = "txn"
  /\ loop[ProcOf(r)] = r
  /\ snapshot' = [snapshot EXCEPT ![r] = doc]
  /\ pending' = [pending EXCEPT ![r] =
                   UpdateInTransaction(IF attempt[r] > 1 THEN pending[r] ELSE doc,
                                       brand_counts[r])]
  /\ pc' = [pc EXCEPT ![r] = "commit"]
  /\ UNCHANGED <<req, resp, db, model, created, loop, used, brand_counts,
                 attempt, doc, doc0, clock, client, agg>>

\* Lines 136-151: one execution of update_in_transaction: read the document,
\* buffer the full replacement.
TxnBody(r) ==
  /\ pc[r] = "txn"
  /\ loop[ProcOf(r)] = r
  /\ snapshot' = [snapshot EXCEPT ![r] = doc]
  /\ pending' = [pending EXCEPT ![r] = UpdateInTransaction(doc, brand_counts[r])]
  /\ pc' = [pc EXCEPT ![r] = "commit"]
  /\ UNCHANGED <<req, resp, db, model, created, loop, used, brand_counts,
                 attempt, doc, doc0, clock, client, agg>>

\* Line 153, the commit made by the transactional wrapper: it writes the
\* buffered document, or is aborted by a concurrent write and the body is run
\* again, until the attempts are used up.
TxnCommit(r) ==
  /\ pc[r] = "commit"
  /\ loop[ProcOf(r)] = r
  /\ IF CommitAllowed(doc, snapshot[r])
     THEN /\ doc' = [pending[r] EXCEPT !.timestamp = clock + 1]
          /\ clock' = clock + 1
          /\ Finish(r, RespMerged(brand_counts[r]))
          /\ UNCHANGED attempt
     ELSE IF attempt[r] < MaxAttempts
     THEN /\ attempt' = [attempt EXCEPT ![r] = @ + 1]
          /\ pc' = [pc EXCEPT ![r] = "txn"]
          /\ UNCHANGED <<resp, loop, doc, clock>>
     ELSE /\ Finish(r, RespStoreFailed)
          /\ UNCHANGED <<attempt, doc, clock>>
  /\ UNCHANGED <<req, db, model, created, used, brand_counts, snapshot,
                 pending, doc0, client, agg>>

\* Mutant: the failing commit has already replaced brands in the document.
TxnFails_PartialWrite(r) ==
  /\ pc[r] \in {"txn", "commit"}
  /\ loop[ProcOf(r)] = r
  /\ Finish(r, RespStoreFailed)
  /\ doc' = IF pc[r] = "commit"
            THEN [doc EXCEPT !.exists = TRUE, !.brands = pending[r].brands]
            ELSE doc
  /\ UNCHANGED <<req, db, model, created, used, brand_counts, attempt,
                 snapshot, pending, doc0, clock, client, agg>>

\* Lines 155-157: the store call raises (unavailable, deadline, ...).
TxnFails(r) ==
  /\ pc[r] \in {"txn", "commit"}
  /\ loop[ProcOf(r)] = r
  /\ Finish(r, RespStoreFailed)
  /\ UNCHANGED <<req, db, model, created, used, brand_counts, attempt,
                 snapshot, pending, doc, doc0, clock, client, agg>>

Next ==
  \E r \in Reqs :
    \/ Receive(r)
    \/ Authenticate(r)
    \/ StartHandler(r)
    \/ DecodeImage(r)
    \/ LoadModel(r)
    \/ RunInference(r)
    \/ InferenceFails(r)
    \/ TxnBody(r)
    \/ TxnCommit(r)
    \/ TxnFails(r)

Spec == Init /\ [][Next]_vars

\* ------------------------------------------------------------ the camera client and the servers
\* client.py line 37: cap.read() gives the next frame, or fails (lines 38-41:
\* log, sleep, continue).
CameraCapture ==
  /\ client.pc = "capture"
  /\ client.frame < MaxFrames
  /\ \/ client' = [client EXCEPT !.pc = "encode", !.frame = @ + 1]
     \/ client' = [client EXCEPT !.pc = "sleep", !.delay = Delay("no_frame")]
  /\ UNCHANGED <<serverVars, agg>>

\* client.py lines 44-47: imencode succeeds, or fails (log, continue without
\* sleeping; the frame is dropped).
CameraEncode ==
  /\ client.pc = "encode"
  /\ \/ client' = [client EXCEPT !.pc = "post"]
     \/ client' = [client EXCEPT !.pc = "capture"]
  /\ UNCHANGED <<serverVars, agg>>

\* client.py line 57: requests.post sends the frame under the configured key
\* and waits, or fails to connect (ConnectionError, caught at line 62).
CameraPost ==
  /\ client.pc = "post"
  /\ LET r == client.frame IN
       \/ /\ pc[r] = "new"
          /\ \E b \in CameraFrames : req' = [req EXCEPT ![r] = [key |-> API_KEY, body |-> b]]
          /\ client' = [client EXCEPT !.pc = "wait", !.posts[r] = @ + 1]
          /\ UNCHANGED <<pc, resp, db, model, created, loop, used, brand_counts,
                         attempt, snapshot, pending, doc, doc0, clock, agg>>
       \/ /\ client' = [client EXCEPT !.pc = "sleep", !.posts[r] = @ + 1,
                                      !.outcome[r] = "connection_error",
                                      !.delay = Delay("connection_error")]
          /\ UNCHANGED <<serverVars, agg>>

\* The event loop of the server process accepts the posted request.
Accept(r) ==
  /\ pc[r] = "new"
  /\ req[r] # NoReq
  /\ LoopFree(ProcOf(r))
  /\ pc' = [pc EXCEPT ![r] = "received"]
  /\ UNCHANGED <<req, resp, db, model, created, loop, used, brand_counts,
                 attempt, snapshot, pending, doc, doc0, clock, client, agg>>

\* client.py lines 57-63: the response arrives; raise_for_status() raises
\* HTTPError for a 4xx/5xx status (caught and logged), else the JSON is logged.
CameraResponse ==
  /\ client.pc = "wait"
  /\ LET r == client.frame
         o == IF resp[r].status = 200 THEN "ok" ELSE "http_error"
     IN /\ pc[r] = "done"
        /\ client' = [client EXCEPT !.pc = "sleep", !.outcome[r] = o, !.delay = Delay(o)]
  /\ UNCHANGED <<serverVars, agg>>

\* Mutant: the server abandons a request whose client has gone.
CameraTimeout_Cancels ==
  /\ client.pc = "wait"
  /\ LET r == client.frame
     IN /\ client' = [client EXCEPT !.pc = "sleep", !.outcome[r] = "timeout",
                                    !.cut[r] = Progress(pc[r]), !.delay = Delay("timeout")]
        /\ pc' = [pc EXCEPT ![r] = "done"]
        /\ loop' = [loop EXCEPT ![ProcOf(r)] = IF @ = r THEN 0 ELSE @]
  /\ UNCHANGED <<req, resp, db, model, created, used, brand_counts,
                 attempt, snapshot, pending, doc, doc0, clock, agg>>

\* client.py line 57, timeout=10: no response within the deadline; requests
\* raises Timeout (caught at line 62) and the client closes the connection.
\* Nothing is sent to the server.
CameraTimeout ==
  /\ client.pc = "wait"
  /\ LET r == client.frame
     IN client' = [client EXCEPT !.pc = "sleep", !.outcome[r] = "timeout",
                                 !.cut[r] = Progress(pc[r]), !.delay = Delay("timeout")]
  /\ UNCHANGED <<serverVars, agg>>

\* client.py line 66 (or 40): the sleep ends, back to cap.read().
CameraSleep ==
  /\ client.pc = "sleep"
  /\ client' = [client EXCEPT !.pc = "capture", !.delay = 0]
  /\ UNCHANGED <<serverVars, agg>>

\* A step of the handler of an accepted request.
HandlerStep(r) ==
  \/ Authenticate(r)
  \/ StartHandler(r)
  \/ DecodeImage(r)
  \/ LoadModel(r)
  \/ RunInference(r)
  \/ InferenceFails(r)
  \/ TxnBody(r)
  \/ TxnCommit(r)
  \/ TxnFails(r)

NextCamera ==
  \/ CameraCapture
  \/ CameraEncode
  \/ CameraPost
  \/ CameraResponse
  \/ CameraTimeout
  \/ CameraSleep
  \/ \E r \in Reqs : Accept(r)
  \/ \E r \in Reqs : HandlerStep(r)

\* The camera is started against a fresh deployment: no document yet.
InitCamera == Init /\ doc0 = AbsentDoc

\* The servers keep running: a handler step that stays possible is taken.
SpecCamera ==
  InitCamera /\ [][NextCamera]_vars /\ WF_vars(\E r \in Reqs : HandlerStep(r))

\* ------------------------------------------------------------ the aggregation on arbitrary boxes
InitAgg ==
  /\ pc = [r \in Reqs |-> "new"]
  /\ req = [r \in Reqs |-> NoReq]
  /\ resp = [r \in Reqs |-> NoResp]
  /\ db = [p \in Procs |-> TRUE]
  /\ model = [p \in Procs |-> 0]
  /\ created = [p \in Procs |-> 0]
  /\ loop = [p \in Procs |-> 0]
  /\ used = [r \in Reqs |-> 0]
  /\ brand_counts = [r \in Reqs |-> EmptyMap]
  /\ attempt = [r \in Reqs |-> 0]
  /\ snapshot = [r \in Reqs |-> AbsentDoc]
  /\ pending = [r \in Reqs |-> AbsentDoc]
  /\ doc0 = AbsentDoc
  /\ doc = doc0
  /\ clock = 0
  /\ client = ClientStart
  /\ \E b \in BoxLists : agg = [NoAgg EXCEPT !.stage = "boxes", !.boxes = b]

\* Lines 113-124: the loop over the boxes.
AggCollect ==
  /\ agg.stage = "boxes"
  /\ agg' = [agg EXCEPT !.stage = "detected", !.detected = CollectDetections(agg.boxes)]
  /\ UNCHANGED <<serverVars, client>>

\* Line 129: Counter(detected_brands).
AggCount ==
  /\ agg.stage = "detected"
  /\ agg' = [agg EXCEPT !.stage = "counted", !.counts = Counter(agg.detected)]
  /\ UNCHANGED <<serverVars, client>>

NextAgg == AggCollect \/ AggCount

SpecAgg == InitAgg /\ [][NextAgg]_vars

\* ------------------------------------------------------------ helpers of the claims
Arrived(r) == pc[r] # "new"
Authenticated(r) == Arrived(r) /\ req[r].key = API_KEY
Merged(r) == pc[r] = "done" /\ resp[r] = RespMerged(brand_counts[r]) /\ attempt[r] > 0
MergedReqs == {r \in Reqs : Merged(r)}

\* The step in which request r's transaction commits.
Commits(r) == pc[r] = "commit" /\ pc'[r] = "done" /\ resp'[r].status = 200

\* The count map {"Brand-A": n}.
OnlyBrandA(n) == [l \in {"Brand-A"} |-> n]

\* C1: no lost updates. When every request that has arrived has completed and
\* each of the N merges contributed the per-frame map {"Brand-A": 1} to a
\* document that did not exist at the start, the document holds
\* brands["Brand-A"] = N and total_bottles = N, whatever the interleaving of
\* the reads and commits of the transactions.
C1_NoLostUpdates ==
  LET N == Cardinality(MergedReqs)
  IN ( /\ doc0 = AbsentDoc
       /\ \A r \in Reqs : pc[r] \in {"new", "done"}
       /\ \A r \in MergedReqs : brand_counts[r] = OnlyBrandA(1)
       /\ N > 0 )
     => /\ doc.exists
        /\ doc.brands = OnlyBrandA(N)
        /\ doc.total_bottles = N

\* C1 witness: all requests merged {"Brand-A": 1} into an absent document, one
\* of them after its first commit was aborted by a concurrent merge.
C1_Witness ==
  /\ doc0 = AbsentDoc
  /\ MergedReqs = Reqs
  /\ \A r \in Reqs : brand_counts[r] = OnlyBrandA(1)
  /\ \E r \in Reqs : attempt[r] > 1
  /\ doc.brands = OnlyBrandA(NumReqs)

\* C2: whenever the document exists, total_bottles is the sum of the values
\* of brands.
C2_TotalIsSum == doc.exists => doc.total_bottles = SumValues(doc.brands)

\* C2 witness: the document after two merges, holding several brands.
C2_Witness ==
  /\ doc.exists
  /\ clock >= 2
  /\ Cardinality(DOMAIN doc.brands) >= 2
  /\ \E r \in Reqs : pc[r] = "done" /\ resp[r] = RespStoreFailed

\* C3: the commit of a request's merge adds the frame's counts to the document
\* as it was just before the commit: total_bottles grows by the sum of the
\* per-frame counts, every label of the frame grows by its count (from 0 when
\* the label or the document is absent), every other label keeps its count.
C3_MergeAddsFrame ==
  [][\A r \in Reqs : Commits(r) =>
       LET before == CurrentBrands(doc)
           frame == brand_counts[r]
       IN /\ DOMAIN frame # {}
          /\ doc'.exists
          /\ doc'.total_bottles = doc.total_bottles + SumValues(frame)
          /\ DOMAIN doc'.brands = (DOMAIN before) \cup (DOMAIN frame)
          /\ \A l \in DOMAIN doc'.brands :
               doc'.brands[l] = Get(before, l, 0) + Get(frame, l, 0)]_vars

\* C3 witness: the example frame merged into a document left by an earlier
\* run, one label already present, one new.
C3_Witness ==
  /\ doc0 = EarlierDoc
  /\ \E r \in MergedReqs : req[r].body = FrameExample
  /\ doc.brands["Brand-A"] >= 4
  /\ "Brand-B" \in DOMAIN doc.brands
  /\ doc.brands["Brand-C"] = 1

\* An authenticated request carrying a valid image in which no detection
\* reaches the threshold.
NothingToCount(r) ==
  /\ Authenticated(r)
  /\ req[r].body.valid
  /\ \A i \in 1..Len(req[r].body.boxes) : req[r].body.boxes[i].conf < CONF_THRESHOLD

\* C4 as stated: every request carrying a valid image with no detection at or
\* above the threshold is answered with the 200 "No bottles detected" payload
\* (here already restricted to the authenticated ones).
C4_AsStated ==
  \A r \in Reqs : (NothingToCount(r) /\ pc[r] = "done") => resp[r] = RespNoBottles

\* C4 amended: an authenticated request carrying a valid image with no
\* detection at or above the threshold never starts a store transaction and no
\* step of it changes the document; it is answered with the 200 "No bottles
\* detected" payload when the store handle of its process is initialised and
\* neither the model load nor the inference fails (else 500 "Firestore is not
\* connected", 500 "Model loading failed", or the 500 of the failed inference).
C4_NoDetectionsNoWrite ==
  /\ [](\A r \in Reqs : NothingToCount(r) =>
          /\ pc[r] \notin {"txn", "commit"}
          /\ attempt[r] = 0
          /\ pc[r] = "done" =>
               IF ~db[ProcOf(r)] THEN resp[r] = RespNoDb
               ELSE resp[r] \in {RespNoBottles, RespLoadFailed, RespInferenceFailed}
          /\ (pc[r] = "done" /\ used[r] # 0 /\ resp[r] # RespInferenceFailed) =>
               resp[r] = RespNoBottles)
  /\ [][\A r \in Reqs : (NothingToCount(r) /\ pc'[r] # pc[r]) => doc' = doc]_vars

\* C4 witness: a frame with one detection just below the threshold answered
\* with "No bottles detected" after another request's merge created the
\* document.
C4_Witness ==
  \E r \in Reqs :
    /\ NothingToCount(r)
    /\ req[r].body = FrameLow
    /\ pc[r] = "done"
    /\ resp[r] = RespNoBottles
    /\ used[r] # 0
    /\ doc.exists /\ doc # doc0

\* C5: a request whose X-API-KEY is missing or differs from API_KEY ends with
\* 403 and goes no further than the authentication: it never reads or decodes
\* the body, never loads or runs the model, never occupies the event loop and
\* never starts a transaction, whatever its body and whether or not the store
\* handle of its process is initialised.
C5_UnauthenticatedStops ==
  \A r \in Reqs : (Arrived(r) /\ req[r].key # API_KEY) =>
    /\ pc[r] \in {"received", "done"}
    /\ pc[r] = "done" => resp[r].status = 403
    /\ pc[r] = "received" => resp[r] = NoResp
    /\ used[r] = 0
    /\ attempt[r] = 0
    /\ brand_counts[r] = EmptyMap
    /\ loop[ProcOf(r)] # r

\* C5 witness: requests without a header and with a wrong key, carrying a
\* frame full of bottles, answered 403, by processes with and without a store
\* handle, the document untouched.
C5_Witness ==
  /\ \E r \in Reqs :
       /\ req[r].key = NoHeader /\ req[r].body = FrameExample
       /\ pc[r] = "done" /\ resp[r] = RespNotAuthenticated /\ ~db[ProcOf(r)]
  /\ \E r \in Reqs :
       /\ req[r].key = "wrong" /\ req[r].body = FrameExample
       /\ pc[r] = "done" /\ resp[r] = RespBadKey /\ db[ProcOf(r)]
  /\ doc = doc0

\* An authenticated request whose body is no image.
Malformed(r) == Authenticated(r) /\ ~req[r].body.valid

\* C6 as stated: every authenticated request with a malformed body ends with
\* a 400-class error.
C6_AsStated ==
  \A r \in Reqs : (Malformed(r) /\ pc[r] = "done") =>
    (resp[r].status >= 400 /\ resp[r].status < 500)

\* C6 amended: an authenticated request with a malformed body (non-image bytes
\* or an empty file) never loads or runs the model and never starts a
\* transaction, so it leaves the document unchanged; it ends with 400 "Invalid
\* image format" when the store handle of its process is initialised, and with
\* 500 "Firestore is not connected" when it is not.
C6_MalformedRejected ==
  \A r \in Reqs : Malformed(r) =>
    /\ pc[r] \in {"received", "authed", "reading", "done"}
    /\ used[r] = 0
    /\ attempt[r] = 0
    /\ loop[ProcOf(r)] # r
    /\ pc[r] = "done" => resp[r] = (IF db[ProcOf(r)] THEN RespBadImage ELSE RespNoDb)

\* C6 witness: an empty file and non-image bytes both answered 400.
C6_Witness ==
  /\ \E r \in Reqs : Malformed(r) /\ req[r].body = EmptyBody /\ resp[r] = RespBadImage
  /\ \E r \in Reqs : Malformed(r) /\ req[r].body = GarbageBody /\ resp[r] = RespBadImage
  /\ doc = doc0

\* How many boxes of request r's image are at or above the threshold and
\* carry label l.
Qualifying(r, l) ==
  Cardinality({i \in 1..Len(req[r].body.boxes) :
                 /\ req[r].body.boxes[i].conf >= CONF_THRESHOLD
                 /\ BrandName(req[r].body.boxes[i].cls) = l})

QualifyingLabels(r) ==
  {BrandName(req[r].body.boxes[i].cls) : i \in {j \in 1..Len(req[r].body.boxes) :
                                                   req[r].body.boxes[j].conf >= CONF_THRESHOLD}}

\* C7: detected_brands and the per-frame map that is merged hold, for each
\* label, the number of detections at or above 0.25 (a detection at exactly
\* 0.25 counts, one below never does), and the commit changes the document by
\* exactly these counts: a label seen only below the threshold is neither
\* added nor changed.
C7_ThresholdFilter ==
  /\ [](\A r \in Reqs :
          /\ pc[r] \in {"txn", "commit"} =>
               brand_counts[r] = [l \in QualifyingLabels(r) |-> Qualifying(r, l)]
          /\ (pc[r] = "done" /\ resp[r].status = 200) =>
               resp[r].detected_brands = [l \in QualifyingLabels(r) |-> Qualifying(r, l)]
          /\ (pc[r] = "done" /\ resp[r] = RespNoBottles) => QualifyingLabels(r) = {})
  /\ [][\A r \in Reqs : Commits(r) =>
          /\ DOMAIN doc'.brands = (DOMAIN CurrentBrands(doc)) \cup QualifyingLabels(r)
          /\ \A l \in DOMAIN doc'.brands :
               doc'.brands[l] = Get(CurrentBrands(doc), l, 0) + Qualifying(r, l)]_vars

\* C7 witness: the example frame (two Brand-A and one Brand-B at or above the
\* threshold, one of them at exactly 0.25, and a Brand-C at 0.1) merged into
\* an absent document, and a frame with one detection at exactly 0.25 merged.
C7_Witness ==
  /\ doc0 = AbsentDoc
  /\ \E r \in MergedReqs :
       /\ req[r].body = FrameExample
       /\ resp[r].detected_brands =
            [l \in {"Brand-A", "Brand-B"} |-> IF l = "Brand-A" THEN 2 ELSE 1]
  /\ \E r \in MergedReqs : req[r].body = FrameEdge /\ resp[r].detected_brands = OnlyBrandA(1)
  /\ "Brand-C" \notin DOMAIN doc.brands
  /\ doc.brands["Brand-A"] = 3

\* The requests served by process p.
ReqsOf(p) == {r \in Reqs : ProcOf(r) = p}

\* The handler positions from get_model() to the end of the transaction: code
\* that runs on the event loop without yielding.
Synchronous == {"loading", "inferring", "txn", "commit"}

\* The handler positions before that: the request is still to be accepted,
\* authenticated, read or decoded.
Waiting == {"new", "received", "authed", "reading"}

\* C8: in each server process at most one model load is in flight; while it
\* is, the load has not been cached yet and every other request of the process
\* waits outside get_model(); at most one model instance is ever created, it is
\* the cached one, and every inference runs on it; and the requests do not
\* deadlock: the event loop is occupied exactly by a request inside that
\* code, a load in flight can complete, and a request that waited for it to
\* enter get_model() can go on once the loop is free.
C8_SingleLoad ==
  /\ \A p \in Procs :
       /\ Cardinality({r \in ReqsOf(p) : pc[r] = "loading"}) <= 1
       /\ created[p] <= 1
       /\ model[p] = created[p]
       /\ \A r \in ReqsOf(p) :
            /\ pc[r] = "loading" =>
                 /\ model[p] = 0
                 /\ \A q \in ReqsOf(p) \ {r} : pc[q] \notin Synchronous
                 /\ ENABLED LoadModel(r)
            /\ pc[r] = "inferring" => model[p] = 1
            /\ used[r] # 0 => (used[r] = 1 /\ model[p] = 1)
  /\ \A r \in Reqs :
       /\ loop[ProcOf(r)] = r <=> pc[r] \in Synchronous
       /\ (pc[r] = "reading" /\ loop[ProcOf(r)] = 0 /\ model[ProcOf(r)] # 0) =>
            ENABLED DecodeImage(r)

\* C8 witness: two requests of one process arrived before the model was
\* loaded; both have run inference on the one instance, loaded by the first.
C8_Witness ==
  \E p \in Procs : \E r, q \in ReqsOf(p) :
    /\ r # q
    /\ created[p] = 1
    /\ used[r] = 1 /\ used[q] = 1
    /\ pc[r] = "done" /\ pc[q] = "done"
    /\ resp[r].status = 200 /\ resp[q].status = 200

\* The step in which request r's model load fails.
LoadFails(r) == pc[r] = "loading" /\ pc'[r] = "done"

\* C9: a failed model load ends only the request that made it, with 500
\* "Model loading failed"; it leaves _model unset, the document and every
\* other request untouched and the event loop free; a request that then
\* reaches get_model() with _model unset starts a load again, and that load
\* can succeed and cache the model.
C9_LoadFailureNotSticky ==
  /\ [][\A r \in Reqs : LoadFails(r) =>
          /\ resp'[r] = RespLoadFailed
          /\ model'[ProcOf(r)] = 0
          /\ created' = created
          /\ doc' = doc
          /\ loop'[ProcOf(r)] = 0
          /\ \A q \in Reqs \ {r} : pc'[q] = pc[q] /\ resp'[q] = resp[q]]_vars
  /\ [][\A r \in Reqs : (pc[r] = "reading" /\ pc'[r] \notin {"reading", "done"}) =>
          pc'[r] = (IF model[ProcOf(r)] = 0 THEN "loading" ELSE "inferring")]_vars
  /\ [](\A r \in Reqs : pc[r] = "loading" =>
          ENABLED (LoadModel(r) /\ model'[ProcOf(r)] # 0 /\ pc'[r] = "inferring"))

\* C9 witness: in one process a request failed with "Model loading failed"
\* and another request then loaded the model and merged its frame.
C9_Witness ==
  \E p \in Procs : \E r, q \in ReqsOf(p) :
    /\ pc[r] = "done" /\ resp[r] = RespLoadFailed
    /\ Merged(q) /\ used[q] = 1
    /\ model[p] = 1
    /\ doc # doc0

\* C10: while a request is inside the model load or the inference, another
\* request of the same server can still be accepted, authenticated, have its
\* body read, or be rejected with 403 or 400.
C10_LoopNotStalled ==
  \A r, q \in Reqs :
    ( /\ r # q
      /\ ProcOf(r) = ProcOf(q)
      /\ pc[r] \in {"loading", "inferring"}
      /\ pc[q] \in Waiting )
    => ENABLED (Receive(q) \/ Authenticate(q) \/ StartHandler(q) \/ DecodeImage(q))

\* The step in which request r's transaction ends without a commit.
MergeFails(r) == pc[r] \in {"txn", "commit"} /\ pc'[r] = "done" /\ resp'[r].status # 200

\* C11: when the merge transaction of a request does not commit, the request
\* ends with 500 "Firestore update failed", the document and the store's clock
\* are exactly as before (nothing of the buffered write is applied), the event
\* loop is released, and the request is over: it never takes another step, so
\* its counts are not merged later.
C11_FailedMergeDiscarded ==
  /\ [][\A r \in Reqs : MergeFails(r) =>
          /\ resp'[r] = RespStoreFailed
          /\ doc' = doc
          /\ clock' = clock
          /\ loop'[ProcOf(r)] = 0]_vars
  /\ [][\A r \in Reqs : (pc[r] = "done" /\ resp[r] = RespStoreFailed) =>
          /\ pc'[r] = "done"
          /\ resp'[r] = resp[r]
          /\ attempt'[r] = attempt[r]
          /\ loop'[ProcOf(r)] # r]_vars

\* C11 witness: a request whose write was buffered ended with "Firestore
\* update failed"; the document is the one the servers started with, although
\* the frame held bottles.
C11_Witness ==
  \E r \in Reqs :
    /\ pc[r] = "done"
    /\ resp[r] = RespStoreFailed
    /\ req[r].body = FrameExample
    /\ pending[r].exists
    /\ doc = doc0
    /\ \A q \in Reqs : pc[q] = "done"

\* The per-frame count map of request r, counted from its image.
PerFrameCounts(r) == [l \in QualifyingLabels(r) |-> Qualifying(r, l)]

\* C12: the response of a merged request carries in detected_brands the
\* per-frame count map of its own image, whatever the document held before and
\* whatever other requests merged.
C12_ResponseIsPerFrame ==
  \A r \in Reqs : (pc[r] = "done" /\ resp[r].status = 200 /\ attempt[r] > 0) =>
    /\ resp[r].detected_brands = PerFrameCounts(r)
    /\ resp[r].detail = "Frame processed and counts updated in Firestore."

\* C12 witness: a request merged its frame after others had merged theirs into
\* a document left by an earlier run; its detected_brands is its own frame's
\* map and differs from the cumulative brands.
C12_Witness ==
  \E r \in Reqs :
    /\ doc0 = EarlierDoc
    /\ pc[r] = "done" /\ resp[r].status = 200 /\ attempt[r] > 0
    /\ req[r].body = FrameEdge
    /\ resp[r].detected_brands = OnlyBrandA(1)
    /\ doc.timestamp = clock /\ clock >= 2
    /\ doc.brands # resp[r].detected_brands
    /\ doc.brands["Brand-A"] >= 4

\* The state of section 4.5 a handler position belongs to: 0 not yet received,
\* 1 Received, 2 Authenticated, 3 Decoded, 5 Aggregated (Detected, 4, is passed
\* inside the step that runs the inference and counts), 7 Responded or Error.
Stage(position) ==
  CASE position = "new" -> 0
    [] position = "received" -> 1
    [] position \in {"authed", "reading"} -> 2
    [] position \in {"loading", "inferring"} -> 3
    [] position \in {"txn", "commit"} -> 5
    [] OTHER -> 7

\* C15: a request moves through Received, Authenticated, Decoded, Detected,
\* Aggregated, Merged, Responded in this order and never backwards: a step
\* keeps its state, enters the next one (Detected and Aggregated in one step),
\* or ends it; it ends with 200 only after detection (the "no bottles"
\* short-circuit, with nothing to count) or after the commit of its merge; it
\* has a response exactly when it has ended and then never changes again; and a
\* merge is attempted only by a request that is authenticated, decoded, has
\* run the detection and has a non-empty count map.
C15_RequestStateMachine ==
  /\ [][\A r \in Reqs :
          /\ Stage(pc'[r]) >= Stage(pc[r])
          /\ Stage(pc'[r]) \in {Stage(pc[r]), Stage(pc[r]) + 1, 7}
               \/ (pc[r] = "inferring" /\ pc'[r] = "txn")
          /\ (pc[r] # "done" /\ pc'[r] = "done" /\ resp'[r].status = 200) =>
               \/ pc[r] = "inferring" /\ resp'[r] = RespNoBottles /\ QualifyingLabels(r) = {}
               \/ pc[r] = "commit" /\ resp'[r].detected_brands # EmptyMap /\ doc' # doc
          /\ doc' # doc => \E q \in Reqs : pc[q] = "commit" /\ pc'[q] = "done"
          /\ pc[r] = "done" => (pc'[r] = "done" /\ resp'[r] = resp[r])]_vars
  /\ [](\A r \in Reqs :
          /\ (resp[r] # NoResp) <=> (pc[r] = "done")
          /\ pc[r] \in {"txn", "commit"} =>
               /\ req[r].key = API_KEY
               /\ req[r].body.valid
               /\ db[ProcOf(r)]
               /\ used[r] # 0
               /\ brand_counts[r] # EmptyMap)

\* C15 witness: the three ways a request ends have all happened: through the
\* merge, through the short-circuit, and through an error.
C15_Witness ==
  /\ \E r \in Reqs : Merged(r) /\ doc.timestamp = clock /\ clock = 1
  /\ \E r \in Reqs : pc[r] = "done" /\ resp[r] = RespNoBottles
  /\ \E r \in Reqs : pc[r] = "done" /\ resp[r].status >= 400

\* The labels counted anywhere.
Labels ==
  (DOMAIN doc.brands) \cup (DOMAIN doc0.brands) \cup UNION {DOMAIN brand_counts[r] : r \in Reqs}

RECURSIVE CountOver(_, _)
CountOver(rs, l) ==
  IF rs = {} THEN 0
  ELSE LET r == CHOOSE x \in rs : TRUE
       IN Get(brand_counts[r], l, 0) + CountOver(rs \ {r}, l)

\* C17: the document holds, for every label, what it held at the start plus
\* the per-frame count of every request that has been answered "merged", each
\* counted once, also for requests whose transaction body ran again after an
\* aborted commit; the per-frame map is not changed while the transaction
\* runs, and every execution of the body reads the document as it is then.
C17_AppliedExactlyOnce ==
  /\ [](\A l \in Labels :
          Get(CurrentBrands(doc), l, 0) = Get(CurrentBrands(doc0), l, 0) + CountOver(MergedReqs, l))
  /\ [][\A r \in Reqs : pc[r] \in {"txn", "commit"} => brand_counts'[r] = brand_counts[r]]_vars
  /\ [][\A r \in Reqs : (pc[r] = "txn" /\ pc'[r] = "commit") =>
          /\ snapshot'[r] = doc
          /\ \A l \in DOMAIN pending'[r].brands :
               pending'[r].brands[l] = Get(CurrentBrands(doc), l, 0) + Get(brand_counts[r], l, 0)]_vars

\* C17 witness: a request whose first commit was aborted merged on a later
\* attempt, all requests have merged, and the document started non-empty.
C17_Witness ==
  /\ doc0 = EarlierDoc
  /\ MergedReqs = Reqs
  /\ \E r \in Reqs : attempt[r] > 1 /\ req[r].body = FrameExample
  /\ clock = NumReqs

\* C18: in a process whose store handle was never initialised, an
\* authenticated request ends with 500 "Firestore is not connected" straight
\* from the start of the handler: it never reads or decodes its body, never
\* loads or runs the model, never starts a transaction, whatever its body; an
\* unauthenticated request there still ends with 403.
C18_NoStoreHandle ==
  \A r \in Reqs : (Arrived(r) /\ ~db[ProcOf(r)]) =>
    /\ pc[r] \in {"received", "authed", "done"}
    /\ used[r] = 0
    /\ attempt[r] = 0
    /\ model[ProcOf(r)] = 0
    /\ loop[ProcOf(r)] = 0
    /\ pc[r] = "done" =>
         resp[r] = (IF req[r].key = API_KEY THEN RespNoDb ELSE verify_api_key(req[r].key))

\* C18 witness: without a store handle, a malformed body, a frame without
\* bottles and a frame with bottles, all authenticated, got "Firestore is not
\* connected", and an unauthenticated request got 403.
C18_Witness ==
  /\ \E r \in Reqs : ~db[ProcOf(r)] /\ Malformed(r) /\ resp[r] = RespNoDb
  /\ \E r \in Reqs : ~db[ProcOf(r)] /\ Authenticated(r) /\ req[r].body \in {FrameLow, FrameExample}
                       /\ resp[r] = RespNoDb
  /\ \E r \in Reqs : ~db[ProcOf(r)] /\ req[r].key = "wrong" /\ resp[r] = RespBadKey

\* C19: the cumulative counts never go down: a step never deletes the
\* document, never removes a label from brands, never lowers the count of a
\* label nor total_bottles (nor the timestamp).
C19_Monotone ==
  [][doc.exists =>
       /\ doc'.exists
       /\ (DOMAIN doc.brands) \subseteq (DOMAIN doc'.brands)
       /\ \A l \in DOMAIN doc.brands : doc'.brands[l] >= doc.brands[l]
       /\ doc'.total_bottles >= doc.total_bottles
       /\ doc'.timestamp >= doc.timestamp]_vars

\* C19 witness: a document left by an earlier run has been merged into twice;
\* its old labels are still there with counts at least as high.
C19_Witness ==
  /\ doc0 = EarlierDoc
  /\ clock >= 2
  /\ doc.brands["Brand-A"] > 2
  /\ doc.brands["Brand-C"] = 1
  /\ doc.total_bottles > doc0.total_bottles

\* The POST of frame r timed out at the client.
Abandoned(r) == client.cut[r] # "-"

\* C13: a timeout of the client changes nothing at the servers or in the
\* store; a request the server was working on when its client gave up is
\* still run to its end; whatever such a request merges is in the document
\* (the document is the initial one plus the map of every merged request,
\* abandoned or not); and the client posts a frame once: after a timeout the
\* next frame it encodes or posts is a later one.
C13_TimeoutDoesNotCancel ==
  /\ [][client'.cut # client.cut => UNCHANGED serverVars]_vars
  /\ \A r \in 1..MaxFrames : (client.cut[r] = "working") ~> (pc[r] = "done")
  /\ [](\A l \in Labels :
          Get(CurrentBrands(doc), l, 0) = Get(CurrentBrands(doc0), l, 0) + CountOver(MergedReqs, l))
  /\ [](\A r \in Reqs :
          /\ client.posts[r] <= 1
          /\ (Abandoned(r) /\ client.pc \in {"encode", "post", "wait"}) => client.frame > r)

\* C13 witness: the client gave up on frame 1 while the server was working on
\* it and has posted frame 2; request 1 was merged all the same, once, and its
\* bottles are in the document.
C13_Witness ==
  /\ client.cut[1] = "working"
  /\ client.frame = 2
  /\ client.posts[1] = 1 /\ client.posts[2] = 1
  /\ req[1].body = FrameExample
  /\ Merged(1)
  /\ doc0 = AbsentDoc
  /\ doc.exists /\ Get(doc.brands, "Brand-A", 0) >= 2

\* A step of the camera client.
ClientStep ==
  CameraCapture \/ CameraEncode \/ CameraPost \/ CameraResponse \/ CameraTimeout \/ CameraSleep

\* C14: whatever the outcome of a POST (success, HTTP error, connection
\* error, timeout), the client goes to the same sleep of FRAME_INTERVAL
\* seconds and from there to the capture of a new frame; it posts a frame at
\* most once; and it never stops: until the camera delivers no more frames it
\* always has a next step.
C14_ClientKeepsPace ==
  /\ [](client.pc = "sleep" => client.delay = FRAME_INTERVAL)
  /\ [](\A r \in Reqs : client.posts[r] <= 1)
  /\ []((client.pc # "capture" \/ client.frame < MaxFrames) => ENABLED ClientStep)
  /\ [][(client.pc \in {"post", "wait"} /\ client' # client) =>
          /\ client'.frame = client.frame
          /\ client'.pc = "sleep" \/ (client.pc = "post" /\ client'.pc = "wait")]_vars
  /\ [][(client.pc = "sleep" /\ client' # client) =>
          /\ client'.pc = "capture"
          /\ client'.posts = client.posts]_vars
  /\ [][(client.pc = "capture" /\ client'.pc = "encode") =>
          /\ client'.frame = client.frame + 1
          /\ client.posts[client'.frame] = 0]_vars

\* C14 witness: the POST of frame 1 timed out, the client posted frame 2,
\* which was answered with an error status, and sleeps FRAME_INTERVAL again.
C14_Witness ==
  /\ client.outcome[1] = "timeout"
  /\ client.outcome[2] = "http_error"
  /\ client.posts[1] = 1 /\ client.posts[2] = 1
  /\ client.pc = "sleep"
  /\ client.delay = FRAME_INTERVAL

\* The boxes of a list at or above the threshold.
Kept(boxes) == {i \in 1..Len(boxes) : boxes[i].conf >= CONF_THRESHOLD}

\* The label a box is counted under: its name in the label table, or its
\* class index as a string.
LabelOf(box) == IF box.cls \in DOMAIN names THEN names[box.cls] ELSE ToString(box.cls)

\* C16: the aggregation keeps one label per box at or above the threshold,
\* known class or not; the values of the count map sum to the number of these
\* boxes, and each label, the stringified index of an unknown class included,
\* has the number of the boxes carrying it.
C16_NothingDropped ==
  /\ agg.stage \in {"detected", "counted"} =>
       Len(agg.detected) = Cardinality(Kept(agg.boxes))
  /\ agg.stage = "counted" =>
       /\ SumValues(agg.counts) = Cardinality(Kept(agg.boxes))
       /\ DOMAIN agg.counts = {LabelOf(agg.boxes[i]) : i \in Kept(agg.boxes)}
       /\ \A l \in DOMAIN agg.counts :
            agg.counts[l] = Cardinality({i \in Kept(agg.boxes) : LabelOf(agg.boxes[i]) = l})

\* C16 witness: a frame with two boxes of an unknown class at or above the
\* threshold and one below it has been counted: "7" has count 2.
C16_Witness ==
  /\ agg.stage = "counted"
  /\ agg.boxes = <<Box(7, 25), Box(7, 24), Box(7, 90)>>
  /\ agg.counts = [l \in {"7"} |-> 2]

====
